---- MODULE Spec2Model ----
(***************************************************************************)
(* A model of the raze ray tracer (computationclub/raze).                  *)
(*                                                                         *)
(* Numbers.  The program computes in IEEE doubles.  The model computes in  *)
(* fixed point: the integer n stands for the real n / Scale, products and  *)
(* quotients are truncated toward zero, Math.sqrt is the integer square    *)
(* root.  NaN (the result of 0/0) is a value of its own that every         *)
(* arithmetic operator propagates and every comparison answers false to,   *)
(* as in JavaScript.  Infinity occurs in the program only as the initial   *)
(* min.t of trace and is only ever compared.                               *)
(***************************************************************************)
EXTENDS Integers, Sequences, FiniteSets, TLC

\* Fixed-point resolution: one unit is 1/Scale.
Scale == 1000

\* Number.NaN, as produced by 0/0 in Vec.normalize and Light.illuminate.
NaN == -2147483647

\* Infinity, the initial min.t of trace.
Infinity == 2147483647

\* JavaScript's null.
Null == [isNull |-> TRUE]

\* A number returned where null could have been.
Num(t) == [isNull |-> FALSE, t |-> t]

\* A Color returned where null could have been.
Col(c) == [isNull |-> FALSE, color |-> c]

Abs(n) == IF n < 0 THEN -n ELSE n

\* Integer division truncated toward zero.
TruncDiv(a, b) ==
  IF (a < 0) = (b < 0) THEN Abs(a) \div Abs(b) ELSE -(Abs(a) \div Abs(b))

\* The literal with the given number of tenths (0.1 is Lit10(1)).
Lit10(tenths) == TruncDiv(tenths * Scale, 10)

\* The integers of the model checker have 32 bits.  A number above Big is
\* multiplied, divided and rooted in parts, at a precision relative to its
\* size, as a double's is.
Big == 2000000

\* a + b
Add(a, b) == IF a = NaN \/ b = NaN THEN NaN ELSE a + b

\* a - b
Sub(a, b) == IF a = NaN \/ b = NaN THEN NaN ELSE a - b

\* The sign of a product or a quotient of a and b.
Sign(a, b) == IF (a < 0) = (b < 0) THEN 1 ELSE -1

\* The product of two magnitudes, formed in parts that fit 32 bits.
MulAbs(p, q) ==
  (p \div Scale) * (q \div Scale) * Scale + (p \div Scale) * (q % Scale)
    + (p % Scale) * (q \div Scale) + ((p % Scale) * (q % Scale)) \div Scale

\* a * b
Mul(a, b) ==
  IF a = NaN \/ b = NaN THEN NaN ELSE Sign(a, b) * MulAbs(Abs(a), Abs(b))

\* a / b.  Every division by zero of the program has a zero or NaN numerator
\* (x/length of the zero vector, dot/length, NaN/denominator), so the
\* quotient is NaN; any other division by zero is left undefined.
DivAbs(p, q) ==
  IF p <= Big THEN (p * Scale) \div q
  ELSE IF q <= Big THEN (p \div q) * Scale + ((p % q) * Scale) \div q
  ELSE p \div (q \div Scale)

Div(a, b) ==
  CASE a = NaN \/ b = NaN -> NaN
    [] b = 0 /\ a = 0 -> NaN
    [] b # 0 -> Sign(a, b) * DivAbs(Abs(a), Abs(b))

\* a < b, a <= b, a > b, a >= b: false when either side is NaN.
Lt(a, b) == a # NaN /\ b # NaN /\ a < b
Le(a, b) == a # NaN /\ b # NaN /\ a <= b
Gt(a, b) == a # NaN /\ b # NaN /\ a > b
Ge(a, b) == a # NaN /\ b # NaN /\ a >= b

\* The literal 1e-10: the bias that keeps a ray from hitting the surface it
\* leaves.  In the program it is far above the rounding error of a double and
\* far below the size of the scene; on the fixed-point grid the value with
\* that property is a few units.
Eps == 10

\* Newton's iteration downward from x, an upper bound of the root.
RECURSIVE ISqrtIter(_, _)
ISqrtIter(n, x) ==
  LET y == (x + n \div x) \div 2
  IN  IF y >= x THEN x ELSE ISqrtIter(n, y)

\* The largest k with k * k <= n, for n >= 0.
ISqrt(n) == IF n = 0 THEN 0 ELSE ISqrtIter(n, 46340)

\* Math.sqrt
Sqrt(a) ==
  IF a = NaN \/ a < 0 THEN NaN
  ELSE IF a <= Big THEN ISqrt(a * Scale)
  ELSE 32 * ISqrt((a \div 1024) * Scale)

\* const sqr = n => n * n
sqr(n) == Mul(n, n)

\* Math.abs
MathAbs(a) == IF a = NaN THEN NaN ELSE Abs(a)

\* Math.round: the nearest integer, halves upward.
MathRound(a) == IF a = NaN THEN NaN ELSE ((a + Scale \div 2) \div Scale) * Scale

(***************************************************************************)
(* Color                                                                   *)
(***************************************************************************)
Color(r, g, b) == [r |-> r, g |-> g, b |-> b]

\* new Color(r, g, b) with integer literals.
ColorLit(r, g, b) == Color(r * Scale, g * Scale, b * Scale)

ColorAdd(c, other) ==
  Color(Add(c.r, other.r), Add(c.g, other.g), Add(c.b, other.b))

ColorScale(c, scalar) ==
  Color(Mul(c.r, scalar), Mul(c.g, scalar), Mul(c.b, scalar))

(***************************************************************************)
(* Vec                                                                     *)
(***************************************************************************)
Vec(x, y, z) == [x |-> x, y |-> y, z |-> z]

\* new Vec(x, y, z) with literals given in tenths.
VecLit(x, y, z) == Vec(Lit10(x), Lit10(y), Lit10(z))

\* The largest of three numbers.
Max3(a, b, c) ==
  IF a >= b /\ a >= c THEN a ELSE IF b >= c THEN b ELSE c

\* Vec.length: sqrt(x*x + y*y + z*z), the sum of squares kept exact.
\* The root of the sum of squares, the components taken in units of k so
\* that the sum fits 32 bits.
LengthIn(v, k) ==
  k * ISqrt((Abs(v.x) \div k) * (Abs(v.x) \div k)
            + (Abs(v.y) \div k) * (Abs(v.y) \div k)
            + (Abs(v.z) \div k) * (Abs(v.z) \div k))

Length(v) ==
  IF v.x = NaN \/ v.y = NaN \/ v.z = NaN THEN NaN
  ELSE LengthIn(v, Max3(Abs(v.x), Abs(v.y), Abs(v.z)) \div 20000 + 1)

\* new Vec(this.x / length, this.y / length, this.z / length)
VOver(v, length) == Vec(Div(v.x, length), Div(v.y, length), Div(v.z, length))

Normalize(v) == VOver(v, Length(v))

VAdd(v, other) == Vec(Add(v.x, other.x), Add(v.y, other.y), Add(v.z, other.z))

VSub(v, other) == Vec(Sub(v.x, other.x), Sub(v.y, other.y), Sub(v.z, other.z))

VScale(v, scalar) == Vec(Mul(v.x, scalar), Mul(v.y, scalar), Mul(v.z, scalar))

Dot(v, other) ==
  Add(Add(Mul(v.x, other.x), Mul(v.y, other.y)), Mul(v.z, other.z))

IsNaNVec(v) == v.x = NaN /\ v.y = NaN /\ v.z = NaN

(***************************************************************************)
(* Film, Camera, Ray                                                       *)
(***************************************************************************)
Film(topLeft, bottomRight) ==
  [topLeft |-> topLeft,
   width   |-> Sub(bottomRight.x, topLeft.x),
   height  |-> Sub(topLeft.y, bottomRight.y),
   z       |-> topLeft.z]

Project(film, x, y) ==
  Vec(Add(film.topLeft.x, Mul(x, film.width)),
      Sub(film.topLeft.y, Mul(y, film.height)),
      film.z)

Ray(origin, direction) == [origin |-> origin, direction |-> direction]

RayAt(ray, t) == VAdd(ray.origin, VScale(ray.direction, t))

(***************************************************************************)
(* Sphere                                                                  *)
(***************************************************************************)
Sphere(center, radius, material) ==
  [kind |-> "Sphere", center |-> center, radius |-> radius,
   material |-> material]

\* const dot = ray.direction.normalize().dot(oc)
SphereDot(s, ray) ==
  Dot(Normalize(ray.direction), VSub(ray.origin, s.center))

\* const b = sqr(oc.length()) - sqr(this.radius)
SphereB(s, ray) ==
  Sub(sqr(Length(VSub(ray.origin, s.center))), sqr(s.radius))

\* The array [-dot - sqrt, -dot + sqrt].
RootsAround(dot, sqrt) ==
  << Sub(Sub(0, dot), sqrt), Add(Sub(0, dot), sqrt) >>

\* The array ts before its filter, where sqrt = Math.sqrt(a - b).
SphereRoots(dot, a, b) == RootsAround(dot, Sqrt(Sub(a, b)))

\* if (ts.length > 0) { return ts[0]; } else { return null; }
FirstOrNull(ts) == IF Len(ts) > 0 THEN Num(ts[1]) ELSE Null

\* A plausible slip: the roots are not filtered and the near one is returned.
SphereSolveUnfiltered(dot, a, b) ==
  IF Lt(a, b) THEN Null ELSE FirstOrNull(SphereRoots(dot, a, b))

\* intersect from the test a < b on.
SphereSolve(dot, a, b) ==
  IF Lt(a, b) THEN Null
  ELSE FirstOrNull(SelectSeq(SphereRoots(dot, a, b), LAMBDA t : Ge(t, 0)))

\* intersect from const a = sqr(dot) on.
SphereHit(dot, b) == SphereSolve(dot, sqr(dot), b)

SphereIntersect(s, ray) == SphereHit(SphereDot(s, ray), SphereB(s, ray))

SphereSurfaceNormal(s, point) == Normalize(VSub(point, s.center))

(***************************************************************************)
(* Plane                                                                   *)
(***************************************************************************)
Plane(point, normal, material) ==
  [kind |-> "Plane", point |-> point, normal |-> Normalize(normal),
   material |-> material]

\* if (t < 0) { return null; } return t;
NonNegativeOrNull(t) == IF Lt(t, 0) THEN Null ELSE Num(t)

\* intersect from the test of ndotl on.
PlaneHit(p, ray, ndotl) ==
  IF Lt(MathAbs(ndotl), Eps) THEN Null
  ELSE NonNegativeOrNull(Div(Dot(p.normal, VSub(p.point, ray.origin)), ndotl))

PlaneIntersect(p, ray) == PlaneHit(p, ray, Dot(p.normal, ray.direction))

\* The checkerboard: dark gray where round(x) + round(z) is even.
PlaneColorAt(p, point) ==
  LET thing == Add(MathRound(point.x), MathRound(point.z))
  IN  IF thing # NaN /\ (thing \div Scale) % 2 = 0 THEN ColorLit(10, 10, 10)
      ELSE p.material.color

(***************************************************************************)
(* Dispatch on the primitive's class                                       *)
(***************************************************************************)
Intersect(o, ray) ==
  IF o.kind = "Sphere" THEN SphereIntersect(o, ray) ELSE PlaneIntersect(o, ray)

SurfaceNormal(o, point) ==
  IF o.kind = "Sphere" THEN SphereSurfaceNormal(o, point) ELSE o.normal

ColorAt(o, point) ==
  IF o.kind = "Sphere" THEN o.material.color ELSE PlaneColorAt(o, point)

(***************************************************************************)
(* Materials                                                               *)
(***************************************************************************)
\* new BlurryReflectiveMaterial(color, reflectance)
BlurryReflectiveMaterial(color, reflectance) ==
  [kind |-> "Blurry", color |-> color, reflectance |-> reflectance]

\* new LambertianMaterial(color, reflectance)
LambertianMaterial(color, reflectance) ==
  [kind |-> "Lambertian", color |-> color, reflectance |-> reflectance]

\* As if the spheres of src/index.js had the material with the jitter.
NoMaterialJittered(color, reflectance) ==
  [kind |-> "Blurry", color |-> color, reflectance |-> reflectance]

\* src/index.js has no material classes: a Sphere carries its color and its
\* reflectance itself and trace reflects it as a mirror.
NoMaterial(color, reflectance) ==
  [kind |-> "None", color |-> color, reflectance |-> reflectance]

\* ray.direction.subtract(normal.scale(2 * dot)), the mirror direction.
Mirror(direction, normal) ==
  LET dot == Dot(direction, normal)
  IN  VSub(direction, VScale(normal, Mul(2 * Scale, dot)))

\* const fuzz = 0.1
fuzz == Lit10(1)

\* BlurryReflectiveMaterial.scatter; rnd holds the three Math.random() draws.
BlurryScatter(incomingRay, intersectionPoint, normal, rnd) ==
  VAdd(Mirror(incomingRay.direction, normal), VScale(rnd, fuzz))

\* The body of LambertianMaterial.scatter's do-while loop.
RandomInUnitSphere(randomVector) ==
  VSub(VScale(randomVector, 2 * Scale), Vec(Scale, Scale, Scale))

\* The loop's condition: the sample is rejected and drawn again.
LambertianRejects(randomVector) ==
  Ge(Length(RandomInUnitSphere(randomVector)), Scale)

\* LambertianMaterial.scatter's result for the accepted draw.
LambertianScatter(incomingRay, intersectionPoint, normal, randomVector) ==
  VAdd(VAdd(intersectionPoint, normal), RandomInUnitSphere(randomVector))

(***************************************************************************)
(* Light                                                                   *)
(***************************************************************************)
Light(center, power) == [center |-> center, power |-> power]

\* 4 * Math.PI
FourPi == TruncDiv(12566 * Scale, 1000)

\* const shadowRay = new Ray(point, pointToLight.normalize())
ShadowRay(light, point) ==
  Ray(point, Normalize(VSub(light.center, point)))

\* The callback of objects.some: t !== null && t > 1e-10 && t < length
Between(t, length) == ~t.isNull /\ Gt(t.t, Eps) /\ Lt(t.t, length)

\* The callback applied to the object s.
Occludes(s, shadowRay, length) == Between(Intersect(s, shadowRay), length)

\* objects.some stops at the first object that occludes: its index, or 0.
RECURSIVE FirstOccluderFrom(_, _, _, _)
FirstOccluderFrom(objs, shadowRay, length, i) ==
  IF i > Len(objs) THEN 0
  ELSE IF Occludes(objs[i], shadowRay, length) THEN i
  ELSE FirstOccluderFrom(objs, shadowRay, length, i + 1)

FirstOccluder(light, point, objs) ==
  FirstOccluderFrom(objs, ShadowRay(light, point),
                    Length(VSub(light.center, point)), 1)

\* const occluded = objects.some(...)
Occluded(light, point, objs) == FirstOccluder(light, point, objs) # 0

\* The energy of an unoccluded light, before the final clamp.
LightPower(light, point, normal) ==
  LET pointToLight == VSub(light.center, point)
      length       == Length(pointToLight)
      cosine       == Div(Dot(pointToLight, normal), length)
      numerator    == Mul(light.power, cosine)
      denominator  == Mul(FourPi, sqr(length))
  IN  Div(numerator, denominator)

\* A plausible slip: the final clamp is left out.
Unclamped(power) == power

\* return power > 0 ? power : 0
Clamped(power) == IF Gt(power, 0) THEN power ELSE 0

Illuminate(light, point, normal, objects) ==
  IF Occluded(light, point, objects) THEN 0
  ELSE Clamped(LightPower(light, point, normal))

(***************************************************************************)
(* Camera                                                                  *)
(***************************************************************************)
Variants == {"index", "part_001"}

\* Camera.trace of src/index.js: the projected point itself is normalized.
CameraTraceIndex(eye, film, x, y) ==
  Ray(eye, Normalize(Project(film, x, y)))

\* Camera.trace of src/unnamed/part_001.
CameraTracePart001(eye, film, x, y) ==
  Ray(eye, Normalize(VSub(Project(film, x, y), eye)))

CameraTrace(v, eye, film, x, y) ==
  IF v = "index" THEN CameraTraceIndex(eye, film, x, y)
  ELSE CameraTracePart001(eye, film, x, y)

\* const eye = new Vec(0, 0, 0.3)
InitEye == VecLit(0, 0, 3)

\* const film = new Film(new Vec(-0.8, 1.2, 1.3), new Vec(1.2, -0.3, 1.3))
InitFilm == Film(VecLit(-8, 12, 13), VecLit(12, -3, 13))

(***************************************************************************)
(* trace                                                                   *)
(***************************************************************************)
\* trace(ray, 5) in src/index.js, trace(ray, 50) in src/unnamed/part_001.
MaxDepth(v) == IF v = "index" THEN 5 ELSE 50

\* A plausible slip: the budget test is off by one.
ExhaustedOffByOne(remainingCalls) == remainingCalls < 0

\* if (remainingCalls <= 0) { return null; }
Exhausted(remainingCalls) == remainingCalls <= 0

\* A plausible slip: <= for <, so that the last of equally near objects wins.
NearerOrEqual(t, i, min) ==
  IF ~t.isNull /\ Le(t.t, min.t) THEN [t |-> t.t, object |-> i] ELSE min

\* if (t !== null && t < min.t) { min = { t, object, ... }; }
Nearer(t, i, min) ==
  IF ~t.isNull /\ Lt(t.t, min.t) THEN [t |-> t.t, object |-> i] ELSE min

\* The for loop of trace: min after objects i, i+1, ... have been tested.
RECURSIVE MinFrom(_, _, _, _)
MinFrom(objs, ray, i, min) ==
  IF i > Len(objs) THEN min
  ELSE MinFrom(objs, ray, i + 1, Nearer(Intersect(objs[i], ray), i, min))

\* let min = { t: Infinity, object: null, ... } and the loop; object 0 is null.
FindMin(objs, ray) == MinFrom(objs, ray, 1, [t |-> Infinity, object |-> 0])

\* lights.reduce((acc, light) => acc + light.illuminate(...), 0)
RECURSIVE EnergyFrom(_, _, _, _, _)
EnergyFrom(lts, objs, point, normal, i) ==
  IF i > Len(lts) THEN 0
  ELSE Add(Illuminate(lts[i], point, normal, objs),
           EnergyFrom(lts, objs, point, normal, i + 1))

\* object.colorAt(intersection); src/index.js reads sphere.color.
HitColor(v, object, intersection) ==
  IF v = "index" THEN object.material.color ELSE ColorAt(object, intersection)

\* The locals of trace at the call of scatter, for the nearest object.
\* The locals from energy on.
FrameLit(objs, lts, ray, remainingCalls, object, intersection, normal, color) ==
  [ray            |-> ray,
   remainingCalls |-> remainingCalls,
   material       |-> object.material,
   intersection   |-> intersection,
   normal         |-> normal,
   color          |-> color,
   shade          |-> ColorScale(color,
                                 EnergyFrom(lts, objs, intersection, normal, 1))]

\* The locals from normal on.
FrameAt(v, objs, lts, ray, remainingCalls, object, intersection) ==
  FrameLit(objs, lts, ray, remainingCalls, object, intersection,
           SurfaceNormal(object, intersection),
           HitColor(v, object, intersection))

HitFrame(v, objs, lts, ray, remainingCalls, min) ==
  FrameAt(v, objs, lts, ray, remainingCalls, objs[min.object],
          RayAt(ray, min.t))

\* const justOutsideSphere = intersection.add(normal.scale(1e-10))
JustOutside(f) == VAdd(f.intersection, VScale(f.normal, Eps))

\* const albedo = color.scale(material.reflectance / 255).  The quotient
\* reflectance / 255 is too small for the fixed-point grid, so each channel is
\* multiplied first and divided afterwards.
Albedo(f) ==
  Color(Div(Mul(f.color.r, f.material.reflectance), 255 * Scale),
        Div(Mul(f.color.g, f.material.reflectance), 255 * Scale),
        Div(Mul(f.color.b, f.material.reflectance), 255 * Scale))

\* return shade.scale(1 - reflectance).add(new Color(reflectionColor * albedo))
\* new Color(reflectionColor.r * albedo.r, ...)
Tinted(reflectionColor, albedo) ==
  Color(Mul(reflectionColor.r, albedo.r),
        Mul(reflectionColor.g, albedo.g),
        Mul(reflectionColor.b, albedo.b))

Composite(f, reflectionColor) ==
  ColorAdd(ColorScale(f.shade, Sub(Scale, f.material.reflectance)),
           Tinted(reflectionColor, Albedo(f)))

\* A plausible slip: a black Color counts as falsy, like the number 0.
OrElseBlackFalsy(result, alternative) ==
  IF result.isNull \/ result.color = ColorLit(0, 0, 0) THEN alternative
  ELSE result.color

\* result || alternative, for a result that is a Color object or null.
OrElse(result, alternative) ==
  IF result.isNull THEN alternative ELSE result.color

\* Math.max
MathMax(a, b) == IF a = NaN \/ b = NaN THEN NaN ELSE IF a > b THEN a ELSE b

\* const background = (ray) => white scaled by max(0.1, ray.direction.y)
Background(ray) ==
  ColorScale(ColorLit(255, 255, 255), MathMax(Lit10(1), ray.direction.y))

(***************************************************************************)
(* Scenes                                                                  *)
(***************************************************************************)
\* The objects and lights of src/index.js.
IndexObjects ==
  << Sphere(VecLit(-10, 10, 50), Lit10(7), NoMaterial(ColorLit(255, 0, 50), Lit10(5))),
     Sphere(VecLit(10, 10, 50), Lit10(7), NoMaterial(ColorLit(50, 255, 0), Lit10(8))),
     Sphere(VecLit(30, 10, 50), Lit10(7), NoMaterial(ColorLit(50, 100, 255), 0)),
     Sphere(VecLit(-10, 20, 40), Lit10(2), NoMaterial(ColorLit(220, 220, 75), Lit10(7))) >>

IndexLights ==
  << Light(VecLit(50, 50, 50), 500 * Scale),
     Light(VecLit(-50, 30, 10), 400 * Scale),
     Light(VecLit(-8, 13, 41), 2 * Scale) >>

\* The objects and lights of src/unnamed/part_001.
Part001Objects ==
  << Sphere(VecLit(-10, 10, 50), Lit10(8), BlurryReflectiveMaterial(ColorLit(255, 50, 50), Lit10(2))),
     Sphere(VecLit(10, 10, 50), Lit10(8), BlurryReflectiveMaterial(ColorLit(50, 255, 100), Lit10(8))),
     Sphere(VecLit(25, 10, 50), Lit10(8), BlurryReflectiveMaterial(ColorLit(50, 100, 255), 0)),
     Sphere(VecLit(-10, 20, 40), Lit10(2), BlurryReflectiveMaterial(ColorLit(220, 220, 75), Lit10(7))),
     Plane(VecLit(0, -10, 0), VecLit(0, 10, 0), BlurryReflectiveMaterial(ColorLit(100, 100, 100), 0)) >>

\* The light at (0, 1000, 5) with power 1e7 does not fit the integers of the
\* model; it stands at a hundredth of its height with a ten-thousandth of its
\* power, which lights the scene alike.
Part001Lights ==
  << Light(VecLit(50, 50, 50), 500 * Scale),
     Light(VecLit(-50, 30, 10), 400 * Scale),
     Light(VecLit(0, 100, 50), 1000 * Scale),
     Light(VecLit(-8, 13, 41), 2 * Scale) >>

\* The material class of a variant's scene, mirror-like.
Shiny(v, color, reflectance) ==
  IF v = "index" THEN NoMaterial(color, reflectance)
  ELSE BlurryReflectiveMaterial(color, reflectance)

\* Two mirror spheres facing each other on the z axis, the eye between them.
CorridorObjects(v) ==
  << Sphere(VecLit(0, 0, 50), Lit10(3), Shiny(v, ColorLit(255, 50, 50), Lit10(5))),
     Sphere(VecLit(0, 0, -50), Lit10(3), Shiny(v, ColorLit(50, 255, 100), Lit10(5))) >>

CorridorLights == << Light(VecLit(50, 50, 0), 500 * Scale) >>

\* A matte sphere lit from behind: the side the eye sees is dark.
DarkObjects(v) ==
  << Sphere(VecLit(0, 5, 50), Lit10(20), Shiny(v, ColorLit(50, 100, 255), 0)) >>

DarkLights == << Light(VecLit(0, 5, 90), 500 * Scale) >>

\* A mirror sphere before the eye and a matte one above the eye, which the
\* first one reflects.
HallObjects(v) ==
  << Sphere(VecLit(0, 5, 50), Lit10(20), Shiny(v, ColorLit(255, 50, 50), Lit10(5))),
     Sphere(VecLit(30, 50, 0), Lit10(20), Shiny(v, ColorLit(50, 255, 100), 0)) >>

HallLights == << Light(VecLit(-50, 50, 0), 500 * Scale) >>

\* A large sphere far behind and, nearer, two spheres in the same place: a
\* ray that hits them gets the same t from both.
TwinObjects(v) ==
  << Sphere(VecLit(0, 5, 100), Lit10(50), Shiny(v, ColorLit(50, 100, 255), 0)),
     Sphere(VecLit(0, 5, 50), Lit10(20), Shiny(v, ColorLit(255, 50, 50), Lit10(5))),
     Sphere(VecLit(0, 5, 50), Lit10(20), Shiny(v, ColorLit(50, 255, 100), 0)) >>

TwinLights == << Light(VecLit(-50, 50, 0), 500 * Scale) >>

\* A diffuse sphere above the ground plane.
DiffuseObjects ==
  << Sphere(VecLit(0, 5, 50), Lit10(20), LambertianMaterial(ColorLit(200, 200, 200), Lit10(5))),
     Plane(VecLit(0, -10, 0), VecLit(0, 10, 0), BlurryReflectiveMaterial(ColorLit(100, 100, 100), 0)) >>

DiffuseLights == << Light(VecLit(50, 50, 50), 500 * Scale) >>

Setup(objs, lts, width, height) ==
  [objects |-> objs, lights |-> lts, width |-> width, height |-> height]

\* Canvas sizes of the model.
SmallCanvas == 2
MidCanvas == 3
WideCanvas == 5

\* The scenes a variant is run on, each with the size of its canvas.
Setups(v) ==
  IF v = "index"
  THEN { Setup(IndexObjects, IndexLights, MidCanvas, MidCanvas),
         Setup(CorridorObjects(v), CorridorLights, WideCanvas, WideCanvas),
         Setup(DarkObjects(v), DarkLights, SmallCanvas, SmallCanvas) }
  ELSE { Setup(Part001Objects, Part001Lights, MidCanvas, MidCanvas),
         Setup(CorridorObjects(v), CorridorLights, WideCanvas, WideCanvas),
         Setup(DarkObjects(v), DarkLights, SmallCanvas, SmallCanvas),
         Setup(DiffuseObjects, DiffuseLights, SmallCanvas, SmallCanvas) }

\* The values Math.random() returns three at a time.
RandVecs ==
  { Vec(0, 0, 0),
    Vec(Scale \div 2, Scale \div 2, Scale \div 2),
    VecLit(9, 1, 5) }

\* The keys of the keydown events; "x" is a key the handler ignores.
Keys == {"a", "h", "j", "k", "d", "l", "w", "s", "x"}

\* The number of keydown events of a run.
MaxKeys == 1

\* The pixel (-1, -1): no pixel is watched.
NoPixel == << -1, -1 >>

(***************************************************************************)
(* The program                                                             *)
(***************************************************************************)
VARIABLES
  variant,      \* which source file runs
  objects,      \* const objects (spheres in src/index.js)
  lights,       \* const lights
  canvas,       \* canvas.width, canvas.height
  eye,          \* const eye, mutated by the keydown handler
  film,         \* const film, mutated by the keydown handler
  pc,           \* where the program is: "pixel", "trace", "scatter", "return", "idle"
  px, py,       \* the loop variables x and y of render
  ray,          \* render's ray, the primary ray of the pixel
  cur,          \* the arguments of the running call of trace
  stack,        \* the locals of the suspended calls of trace, outermost first
  ret,          \* the value the last finished call of trace returned
  randomVector, \* the last draw of LambertianMaterial.scatter's loop
  written,      \* the arguments of the last canvas.setPixel call
  presented,    \* the number of canvas.render() calls made
  key,          \* e.key of the last keydown event
  keyboard,     \* the keys the user presses in this run
  keysLeft,     \* the number of keydown events still to come
  intersects,   \* intersect calls made for the current pixel
  illuminates,  \* illuminate calls made for the current pixel
  handed,       \* the directions of the rays handed to intersect by the last step
  reflection,   \* the last reflectionColor and the result it was computed from
  watch,        \* a pixel, fixed for the run
  first,        \* the color the first render wrote to the pixel watch
  call,         \* the arguments of the function under test
  result        \* what the function under test returned

sceneVars  == << variant, objects, lights, canvas >>
cameraVars == << eye, film >>
traceVars  == << pc, px, py, ray, cur, stack, ret, randomVector >>
outVars    == << written, presented >>
eventVars  == << key, keyboard, keysLeft >>
ghostVars  == << intersects, illuminates, handed, reflection, watch, first >>
testVars   == << call, result >>
vars == << sceneVars, cameraVars, traceVars, outVars, eventVars, ghostVars, testVars >>

NoCall == [fn |-> "none"]

\* The program after construction, at the first call of render().
Start(setup) ==
  /\ objects = setup.objects
  /\ lights = setup.lights
  /\ canvas = [width |-> setup.width, height |-> setup.height]
  /\ eye = InitEye
  /\ film = InitFilm
  /\ px = 0
  /\ py = 0
  /\ ray = Ray(Vec(0, 0, 0), Vec(0, 0, 0))
  /\ cur = [ray |-> Ray(Vec(0, 0, 0), Vec(0, 0, 0)), remainingCalls |-> 0]
  /\ stack = << >>
  /\ ret = Null
  /\ randomVector = Vec(0, 0, 0)
  /\ written = Null
  /\ presented = 0
  /\ key = ""
  /\ intersects = 0
  /\ illuminates = 0
  /\ handed = {}
  /\ reflection = Null
  /\ first = Null

Init ==
  /\ pc = "pixel"
  /\ call = NoCall
  /\ result = Null
  /\ variant \in Variants
  /\ \E setup \in Setups(variant) : Start(setup)
  /\ keyboard = Keys
  /\ keysLeft = MaxKeys
  /\ watch = NoPixel

\* x / canvas.width, y / canvas.height
PixelX == Div(px * Scale, canvas.width * Scale)
PixelY == Div(py * Scale, canvas.height * Scale)

\* objects.some calls its callback up to the first object that occludes.
UpTo(i, n) == IF i = 0 THEN n ELSE i

\* The number of intersect calls objects.some makes for one light.
ShadowTests(light, point, objs) ==
  UpTo(FirstOccluder(light, point, objs), Len(objs))

\* The number of intersect calls the illuminate calls of one trace make.
RECURSIVE AllShadowTests(_, _, _, _)
AllShadowTests(lts, point, objs, i) ==
  IF i > Len(lts) THEN 0
  ELSE ShadowTests(lts[i], point, objs)
       + AllShadowTests(lts, point, objs, i + 1)

\* No call of trace is at its entry.
NoCur == [ray |-> Ray(Vec(0, 0, 0), Vec(0, 0, 0)), remainingCalls |-> 0]

\* The body of render's loops up to the call of trace.
RenderPixel ==
  /\ pc = "pixel"
  /\ ray' = CameraTrace(variant, eye, film, PixelX, PixelY)
  /\ cur' = [ray |-> ray', remainingCalls |-> MaxDepth(variant)]
  /\ stack' = << >>
  /\ pc' = "trace"
  /\ handed' = {}
  /\ written' = Null
  /\ reflection' = Null
  /\ UNCHANGED << sceneVars, cameraVars, px, py, ret, randomVector, presented,
                  eventVars, intersects, illuminates, watch, first, testVars >>

\* trace from its entry to its return of null or to its call of scatter.
TraceCall ==
  /\ pc = "trace"
  /\ IF Exhausted(cur.remainingCalls)
     THEN /\ ret' = Null
          /\ pc' = "return"
          /\ handed' = {}
          /\ UNCHANGED << stack, intersects, illuminates >>
     ELSE \E min \in {FindMin(objects, cur.ray)} :
            IF min.object = 0
            THEN /\ ret' = Null
                 /\ pc' = "return"
                 /\ handed' = {cur.ray.direction}
                 /\ intersects' = intersects + Len(objects)
                 /\ UNCHANGED << stack, illuminates >>
            ELSE \E f \in {HitFrame(variant, objects, lights, cur.ray,
                                    cur.remainingCalls, min)} :
                   /\ stack' = Append(stack, f)
                   /\ pc' = "scatter"
                   /\ handed' = {cur.ray.direction} \cup
                        { ShadowRay(lights[i], f.intersection).direction :
                            i \in 1..Len(lights) }
                   /\ intersects' = intersects + Len(objects)
                        + AllShadowTests(lights, f.intersection, objects, 1)
                   /\ illuminates' = illuminates + Len(lights)
                   /\ UNCHANGED ret
  /\ cur' = NoCur
  /\ reflection' = Null
  /\ UNCHANGED << sceneVars, cameraVars, px, py, ray, randomVector,
                  outVars, eventVars, watch, first, testVars >>

\* A plausible slip: the budget is passed on undiminished.
SameBudget(remainingCalls) == remainingCalls

\* trace(reflectionRay, remainingCalls - 1)
NextBudget(remainingCalls) == remainingCalls - 1

\* new Ray(justOutsideSphere, rPrime) and the recursive call of trace.
Recurse(f, rPrime) ==
  /\ cur' = [ray |-> Ray(JustOutside(f), rPrime),
             remainingCalls |-> NextBudget(f.remainingCalls)]
  /\ pc' = "trace"

\* src/index.js: rPrime is the mirror direction, computed in trace itself.
ScatterMirror ==
  /\ pc = "scatter"
  /\ stack[Len(stack)].material.kind = "None"
  /\ LET f == stack[Len(stack)]
     IN  Recurse(f, Mirror(f.ray.direction, f.normal))
  /\ handed' = {}
  /\ UNCHANGED << sceneVars, cameraVars, px, py, ray, stack, ret, randomVector,
                  outVars, eventVars, intersects, illuminates, reflection,
                  watch, first, testVars >>

\* material.scatter of a BlurryReflectiveMaterial, and the recursive call.
ScatterBlurry ==
  /\ pc = "scatter"
  /\ stack[Len(stack)].material.kind = "Blurry"
  /\ \E rnd \in RandVecs :
       LET f == stack[Len(stack)]
       IN  Recurse(f, BlurryScatter(f.ray, f.intersection, f.normal, rnd))
  /\ handed' = {}
  /\ UNCHANGED << sceneVars, cameraVars, px, py, ray, stack, ret, randomVector,
                  outVars, eventVars, intersects, illuminates, reflection,
                  watch, first, testVars >>

\* One turn of the do-while loop of LambertianMaterial.scatter: a draw that is
\* rejected leaves the program in the loop, one that is accepted returns and
\* trace makes its recursive call.
ScatterLambertian ==
  /\ pc = "scatter"
  /\ stack[Len(stack)].material.kind = "Lambertian"
  /\ \E rv \in RandVecs :
       IF LambertianRejects(rv)
       THEN /\ randomVector' = rv
            /\ UNCHANGED << cur, pc >>
       ELSE /\ randomVector' = Vec(0, 0, 0)
            /\ LET f == stack[Len(stack)]
               IN  Recurse(f, LambertianScatter(f.ray, f.intersection, f.normal, rv))
  /\ handed' = {}
  /\ UNCHANGED << sceneVars, cameraVars, px, py, ray, stack, ret,
                  outVars, eventVars, intersects, illuminates, reflection,
                  watch, first, testVars >>

\* The recursive call returns into trace, which composes and returns its color.
TraceReturn ==
  /\ pc = "return"
  /\ stack # << >>
  /\ LET f == stack[Len(stack)]
         reflectionColor == OrElse(ret, ColorLit(0, 0, 0))
     IN  /\ ret' = Col(Composite(f, reflectionColor))
         /\ reflection' = [isNull |-> FALSE, from |-> ret,
                           color |-> reflectionColor]
  /\ stack' = SubSeq(stack, 1, Len(stack) - 1)
  /\ handed' = {}
  /\ UNCHANGED << sceneVars, cameraVars, pc, px, py, ray, cur, randomVector,
                  outVars, eventVars, intersects, illuminates, watch, first,
                  testVars >>

\* trace returns into render: canvas.setPixel, and the loops step.
SetPixel ==
  /\ pc = "return"
  /\ stack = << >>
  /\ LET color == OrElse(ret, Background(ray))
     IN  /\ written' = [isNull |-> FALSE, x |-> px, y |-> py, from |-> ret,
                        color |-> color]
         /\ first' = IF presented = 0 /\ << px, py >> = watch
                     THEN Col(color) ELSE first
  /\ IF px + 1 < canvas.width
     THEN /\ px' = px + 1
          /\ py' = py
          /\ pc' = "pixel"
     ELSE IF py + 1 < canvas.height
     THEN /\ px' = 0
          /\ py' = py + 1
          /\ pc' = "pixel"
     ELSE /\ px' = 0
          /\ py' = 0
          /\ pc' = "present"
  /\ ret' = Null
  /\ handed' = {}
  /\ reflection' = Null
  /\ intersects' = 0
  /\ illuminates' = 0
  /\ UNCHANGED << sceneVars, cameraVars, ray, cur, stack, randomVector,
                  presented, eventVars, watch, testVars >>

\* canvas.render(), after the loops.
CanvasRender ==
  /\ pc = "present"
  /\ presented' = presented + 1
  /\ pc' = "idle"
  /\ written' = Null
  /\ UNCHANGED << sceneVars, cameraVars, px, py, ray, cur, stack, ret,
                  randomVector, eventVars, ghostVars, testVars >>

\* One nudge of the camera.
Step == Lit10(1)

\* A plausible slip: w and s move film.topLeft.z, which project does not read.
NudgeTopLeft(k, e, f) ==
  CASE k \in {"a", "h"} ->
         [eye  |-> [e EXCEPT !.x = Sub(e.x, Step)],
          film |-> [f EXCEPT !.topLeft.x = Sub(f.topLeft.x, Step)]]
    [] k = "j" ->
         [eye  |-> [e EXCEPT !.y = Sub(e.y, Step)],
          film |-> [f EXCEPT !.topLeft.y = Sub(f.topLeft.y, Step)]]
    [] k = "k" ->
         [eye  |-> [e EXCEPT !.y = Add(e.y, Step)],
          film |-> [f EXCEPT !.topLeft.y = Add(f.topLeft.y, Step)]]
    [] k \in {"d", "l"} ->
         [eye  |-> [e EXCEPT !.x = Add(e.x, Step)],
          film |-> [f EXCEPT !.topLeft.x = Add(f.topLeft.x, Step)]]
    [] k = "w" ->
         [eye  |-> [e EXCEPT !.z = Add(e.z, Step)],
          film |-> [f EXCEPT !.topLeft.z = Add(f.topLeft.z, Step)]]
    [] k = "s" ->
         [eye  |-> [e EXCEPT !.z = Sub(e.z, Step)],
          film |-> [f EXCEPT !.topLeft.z = Sub(f.topLeft.z, Step)]]

\* The switch of the keydown handler: the eye and the film after the key.
Nudge(k, e, f) ==
  CASE k \in {"a", "h"} ->
         [eye  |-> [e EXCEPT !.x = Sub(e.x, Step)],
          film |-> [f EXCEPT !.topLeft.x = Sub(f.topLeft.x, Step)]]
    [] k = "j" ->
         [eye  |-> [e EXCEPT !.y = Sub(e.y, Step)],
          film |-> [f EXCEPT !.topLeft.y = Sub(f.topLeft.y, Step)]]
    [] k = "k" ->
         [eye  |-> [e EXCEPT !.y = Add(e.y, Step)],
          film |-> [f EXCEPT !.topLeft.y = Add(f.topLeft.y, Step)]]
    [] k \in {"d", "l"} ->
         [eye  |-> [e EXCEPT !.x = Add(e.x, Step)],
          film |-> [f EXCEPT !.topLeft.x = Add(f.topLeft.x, Step)]]
    [] k = "w" ->
         [eye  |-> [e EXCEPT !.z = Add(e.z, Step)],
          film |-> [f EXCEPT !.z = Add(f.z, Step)]]
    [] k = "s" ->
         [eye  |-> [e EXCEPT !.z = Sub(e.z, Step)],
          film |-> [f EXCEPT !.z = Sub(f.z, Step)]]

\* The keys with a case in the switch.
Recognised == {"a", "h", "j", "k", "d", "l", "w", "s"}

\* The keydown handler; the program is single-threaded, so an event is handled
\* only when no render is running.  A recognised key ends in render().
KeyDown ==
  /\ pc = "idle"
  /\ keysLeft > 0
  /\ \E k \in keyboard :
       /\ key' = k
       /\ IF k \in Recognised
          THEN /\ eye' = Nudge(k, eye, film).eye
               /\ film' = Nudge(k, eye, film).film
               /\ pc' = "pixel"
          ELSE UNCHANGED << eye, film, pc >>
  /\ keysLeft' = keysLeft - 1
  /\ UNCHANGED << sceneVars, px, py, ray, cur, stack, ret, randomVector,
                  keyboard, outVars, ghostVars, testVars >>

Next ==
  \/ RenderPixel
  \/ TraceCall
  \/ ScatterMirror
  \/ ScatterBlurry
  \/ ScatterLambertian
  \/ TraceReturn
  \/ SetPixel
  \/ CanvasRender
  \/ KeyDown

Spec == Init /\ [][Next]_vars

\* The positions of the program.
ProgramCounters == {"pixel", "trace", "scatter", "return", "present", "idle"}

\* Some action of Next is enabled: a render is under way, or a key can come.
CanStep ==
  \/ pc \in ProgramCounters \ {"idle"}
  \/ pc = "idle" /\ keysLeft > 0 /\ keyboard # {}

\* Every step of Next changes pc, randomVector or keysLeft, except the return
\* of a nested call into its caller, and only finitely many of those follow
\* one another.
progress == << pc, randomVector, keysLeft >>

\* A step of the program, as far as progress shows it.
Progress ==
  /\ CanStep
  /\ pc' \in ProgramCounters
  /\ randomVector' \in RandVecs \cup {Vec(0, 0, 0)}
  /\ keysLeft' \in {keysLeft, keysLeft - 1}

\* The engine runs the script and the handlers to their end: a program that
\* can take a step does not stop.  (Weak fairness of Next, stated on the part
\* of the state that shows a step.)
FairSpec == Spec /\ WF_progress(Progress)

(***************************************************************************)
(* The camera under a run of keys.  The scene is small, so that the        *)
(* renders between the keys are short.                                     *)
(***************************************************************************)
\* The number of keydown events of these runs.
MaxNudges == 3

InitCamera ==
  /\ pc = "pixel"
  /\ call = NoCall
  /\ result = Null
  /\ variant \in Variants
  /\ Start(Setup(HallObjects(variant), HallLights, SmallCanvas, SmallCanvas))
  /\ keyboard = Keys
  /\ keysLeft = MaxNudges
  /\ watch = NoPixel

\* The program on a scene without the diffuse material.
NextSpecular ==
  \/ RenderPixel
  \/ TraceCall
  \/ ScatterMirror
  \/ ScatterBlurry
  \/ TraceReturn
  \/ SetPixel
  \/ CanvasRender
  \/ KeyDown

SpecCamera == InitCamera /\ [][NextSpecular]_vars

(***************************************************************************)
(* The hard-coded scene rendered, the camera nudged away and back, and the *)
(* scene rendered again.  watch is the pixel whose first color is kept.    *)
(***************************************************************************)
\* The number of keydown events of these runs: away and back.
AwayAndBack == 2

\* The hard-coded scenes, and for the mirror of src/index.js a scene in which
\* what is reflected is in sight.
SetupsTwice(v) ==
  IF v = "index"
  THEN { Setup(IndexObjects, IndexLights, MidCanvas, MidCanvas),
         Setup(HallObjects(v), HallLights, SmallCanvas, SmallCanvas) }
  ELSE { Setup(Part001Objects, Part001Lights, MidCanvas, MidCanvas) }

InitTwice ==
  /\ pc = "pixel"
  /\ call = NoCall
  /\ result = Null
  /\ variant \in Variants
  /\ \E setup \in SetupsTwice(variant) : Start(setup)
  /\ keyboard = {"a", "d"}
  /\ keysLeft = AwayAndBack
  /\ watch \in (0..(canvas.width - 1)) \X (0..(canvas.height - 1))

SpecTwice == InitTwice /\ [][NextSpecular]_vars

(***************************************************************************)
(* The functions on their own: Init draws the arguments, the one action    *)
(* applies the function.  The program itself stands still (pc = "test").   *)
(***************************************************************************)
(***************************************************************************)
(* The hard-coded scenes and the scene of the two spheres in one place,    *)
(* rendered, the camera nudged once, and rendered again.                   *)
(***************************************************************************)
SetupsNearest(v) ==
  IF v = "index"
  THEN { Setup(IndexObjects, IndexLights, MidCanvas, MidCanvas),
         Setup(TwinObjects(v), TwinLights, SmallCanvas, SmallCanvas) }
  ELSE { Setup(Part001Objects, Part001Lights, MidCanvas, MidCanvas),
         Setup(TwinObjects(v), TwinLights, SmallCanvas, SmallCanvas) }

InitNearest ==
  /\ pc = "pixel"
  /\ call = NoCall
  /\ result = Null
  /\ variant \in Variants
  /\ \E setup \in SetupsNearest(variant) : Start(setup)
  /\ keyboard = {"w", "s"}
  /\ keysLeft = MaxKeys
  /\ watch = NoPixel

SpecNearest == InitNearest /\ [][NextSpecular]_vars

Standstill ==
  /\ variant = "part_001"
  /\ Start(Setup(<< >>, << >>, 1, 1))
  /\ keyboard = {}
  /\ keysLeft = 0
  /\ watch = NoPixel
  /\ pc = "test"

\* What a function returned: its value.
Returned(value) == [isNull |-> FALSE, value |-> value]

\* The components of the vectors normalize is tried on, in halves.
TestHalves == -2..2

TestVecs ==
  { Vec(x * (Scale \div 2), y * (Scale \div 2), z * (Scale \div 2)) :
      x \in TestHalves, y \in TestHalves, z \in TestHalves }

InitVec ==
  /\ Standstill
  /\ \E v \in TestVecs : call = [fn |-> "normalize", v |-> v]
  /\ result = Null

\* v.normalize()
ApplyNormalize ==
  /\ pc = "test"
  /\ call.fn = "normalize"
  /\ result.isNull
  /\ result' = Returned(Normalize(call.v))
  /\ UNCHANGED << sceneVars, cameraVars, traceVars, outVars, eventVars,
                  ghostVars, call >>

SpecVec == InitVec /\ [][ApplyNormalize]_vars

TestMaterial == BlurryReflectiveMaterial(ColorLit(255, 50, 50), Lit10(2))

TestSpheres ==
  { Sphere(VecLit(0, 0, 50), Lit10(10), TestMaterial),
    Sphere(VecLit(10, 10, 50), Lit10(8), TestMaterial),
    Sphere(VecLit(0, 0, 0), Lit10(20), TestMaterial) }

TestOrigins ==
  { VecLit(0, 0, 0), VecLit(0, 0, 3), VecLit(0, 0, 45), VecLit(10, 10, 50),
    VecLit(0, 0, 100), VecLit(0, 10, 50) }

\* Directions, not all of them of unit length: intersect normalizes its own.
TestDirections ==
  { VecLit(0, 0, 10), VecLit(0, 0, -10), VecLit(0, 0, 20), VecLit(2, 2, 10),
    VecLit(10, 0, 0), VecLit(0, -10, 0), VecLit(1, 1, 5), VecLit(-2, -2, -9) }

InitSphere ==
  /\ Standstill
  /\ \E s \in TestSpheres, o \in TestOrigins, d \in TestDirections :
       call = [fn |-> "intersect", sphere |-> s, ray |-> Ray(o, d)]
  /\ result = Null

\* sphere.intersect(ray)
ApplySphereIntersect ==
  /\ pc = "test"
  /\ call.fn = "intersect"
  /\ result.isNull
  /\ result' = Returned(SphereIntersect(call.sphere, call.ray))
  /\ UNCHANGED << sceneVars, cameraVars, traceVars, outVars, eventVars,
                  ghostVars, call >>

SpecSphere == InitSphere /\ [][ApplySphereIntersect]_vars

TestLights ==
  { Light(VecLit(50, 50, 50), 500 * Scale),
    Light(VecLit(0, 0, 90), 500 * Scale),
    Light(VecLit(-8, 13, 41), 2 * Scale) }

\* Points on the unit sphere around (0, 0, 5) and on the plane y = -1.
TestPoints ==
  { VecLit(0, 0, 40), VecLit(0, 10, 50), VecLit(0, 0, 60), VecLit(0, -10, 20) }

TestNormals == { VecLit(0, 0, -10), VecLit(0, 10, 0), VecLit(0, 0, 10) }

TestScenes ==
  { << >>,
    << Sphere(VecLit(0, 0, 50), Lit10(10), TestMaterial) >>,
    << Sphere(VecLit(0, 0, 50), Lit10(10), TestMaterial),
       Plane(VecLit(0, -10, 0), VecLit(0, 10, 0), TestMaterial) >>,
    << Plane(VecLit(0, -10, 0), VecLit(0, 10, 0), TestMaterial),
       Sphere(VecLit(20, 20, 45), Lit10(10), TestMaterial) >> }

InitLight ==
  /\ Standstill
  /\ \E l \in TestLights, p \in TestPoints, n \in TestNormals, o \in TestScenes :
       call = [fn |-> "illuminate", light |-> l, point |-> p, normal |-> n,
               objects |-> o]
  /\ result = Null

\* light.illuminate(point, normal, objects)
ApplyIlluminate ==
  /\ pc = "test"
  /\ call.fn = "illuminate"
  /\ result.isNull
  /\ result' = Returned(Illuminate(call.light, call.point, call.normal,
                                   call.objects))
  /\ UNCHANGED << sceneVars, cameraVars, traceVars, outVars, eventVars,
                  ghostVars, call >>

SpecLight == InitLight /\ [][ApplyIlluminate]_vars

(***************************************************************************)
(* Properties                                                              *)
(***************************************************************************)
IsVec(value) == DOMAIN value = {"x", "y", "z"}

\* C3: normalize applied to a vector of length zero does not return a vector:
\* it fails with an error, so nothing downstream can go on with its result.
C3_ZeroNormalizeFails ==
  (call.fn = "normalize" /\ ~result.isNull /\ Length(call.v) = 0)
    => ~IsVec(result.value)

\* What normalize does return for the zero vector: three NaN components.
C3_ZeroNormalizeIsNaN ==
  (call.fn = "normalize" /\ ~result.isNull /\ Length(call.v) = 0)
    => (IsVec(result.value) /\ IsNaNVec(result.value))

\* Some object of the call lies strictly between the point and the light.
C9_Blocked ==
  LET shadowRay == ShadowRay(call.light, call.point)
      dist      == Length(VSub(call.light.center, call.point))
  IN  \E i \in 1..Len(call.objects) :
        LET t == Intersect(call.objects[i], shadowRay)
        IN  ~t.isNull /\ t.t > Eps /\ t.t < dist

\* C9: illuminate returns 0 when some object intersects the shadow ray at a
\* t with 1e-10 < t < dist; otherwise it returns the larger of 0 and
\* power * cosine / (4 * pi * dist^2); it never returns a negative energy.
C9_Illuminate ==
  (call.fn = "illuminate" /\ ~result.isNull) =>
    LET power == LightPower(call.light, call.point, call.normal)
    IN  /\ result.value >= 0
        /\ C9_Blocked => result.value = 0
        /\ ~C9_Blocked =>
             result.value = (IF power >= 0 THEN power ELSE 0)

\* An unoccluded light behind the surface: the clamp is what returns 0.
C9_Witness ==
  /\ call.fn = "illuminate"
  /\ ~result.isNull
  /\ ~C9_Blocked
  /\ LightPower(call.light, call.point, call.normal) < 0
  /\ result.value = 0

\* The two roots intersect computes for the call, nearer first.
C10_Roots ==
  LET dot == SphereDot(call.sphere, call.ray)
  IN  SphereRoots(dot, sqr(dot), SphereB(call.sphere, call.ray))

\* C10: intersect never returns a negative t: it returns null when a < b or
\* when both roots are negative, and otherwise the smallest root that is >= 0.
C10_Intersect ==
  (call.fn = "intersect" /\ ~result.isNull) =>
    LET dot   == SphereDot(call.sphere, call.ray)
        a     == sqr(dot)
        b     == SphereB(call.sphere, call.ray)
        roots == C10_Roots
        t     == result.value
    IN  /\ ~t.isNull => t.t >= 0
        /\ t.isNull <=> (a < b \/ (roots[1] < 0 /\ roots[2] < 0))
        /\ ~t.isNull =>
             /\ t.t \in {roots[1], roots[2]}
             /\ \A i \in 1..2 : roots[i] >= 0 => t.t <= roots[i]

\* The origin is inside the sphere and the far root is returned.
C10_Witness ==
  /\ call.fn = "intersect"
  /\ ~result.isNull
  /\ SphereB(call.sphere, call.ray) < 0
  /\ C10_Roots[1] < 0
  /\ result.value = Num(C10_Roots[2])

\* C1: a call of trace whose remainingCalls is <= 0 returns null, whatever the
\* ray and the scene, and on its way tests no object for intersection and
\* evaluates no light.
C1_DepthTermination ==
  [][(pc = "trace" /\ cur.remainingCalls <= 0)
       => /\ pc' = "return"
          /\ ret' = Null
          /\ stack' = stack
          /\ intersects' = intersects
          /\ illuminates' = illuminates]_vars

\* A nested call with no budget left has returned null without handing a ray
\* to any object: the chain of calls above it has used the whole budget.
C1_Witness ==
  /\ pc = "return"
  /\ ret.isNull
  /\ handed = {}
  /\ Len(stack) = MaxDepth(variant)
  /\ stack[Len(stack)].remainingCalls = 1
  /\ intersects > 0

\* The primary call of trace is at its entry.
AtPrimaryCall == pc = "trace" /\ stack = << >>

\* C5: in src/index.js and in src/unnamed/part_001 the ray of Camera.trace(x, y)
\* starts at eye and points along (film.project(x, y) - eye) normalized, so its
\* direction for a pixel after any nudges is the direction before them.
C5_CameraRay ==
  AtPrimaryCall =>
    /\ cur.ray = ray
    /\ ray.origin = eye
    /\ ray.direction = Normalize(VSub(Project(film, PixelX, PixelY), eye))
    /\ ray.direction =
         Normalize(VSub(Project(InitFilm, PixelX, PixelY), InitEye))

\* How far the length of a direction may be from 1 and still count as unit:
\* more than the rounding of the arithmetic, less than any jitter.
UnitTol == 20

IsUnit(direction) ==
  LET length == Length(direction)
  IN  length # NaN /\ Abs(length - Scale) <= UnitTol

\* C6: every ray handed to an object's intersect during a render has a
\* direction of unit length: primary rays, shadow rays and reflection rays.
C6_UnitDirections == \A direction \in handed : IsUnit(direction)

\* C8: the color written for a pixel is background(primaryRay) exactly when
\* the primary ray hits no object, and is the traced color otherwise, black
\* included; a reflection that returns null contributes black.
C8_Background ==
  /\ ~written.isNull =>
       LET miss == \A i \in 1..Len(objects) : Intersect(objects[i], ray).isNull
           y    == IF ray.direction.y > Lit10(1) THEN ray.direction.y
                   ELSE Lit10(1)
           white == ColorScale(ColorLit(255, 255, 255), y)
       IN  /\ written.from.isNull <=> miss
           /\ written.from.isNull => written.color = white
           /\ ~written.from.isNull => written.color = written.from.color
  /\ ~reflection.isNull =>
       /\ reflection.from.isNull => reflection.color = ColorLit(0, 0, 0)
       /\ ~reflection.from.isNull => reflection.color = reflection.from.color

\* A primary ray hit an object, the traced color is black, and black is what
\* was written.
C8_Witness ==
  /\ ~written.isNull
  /\ ~written.from.isNull
  /\ written.from.color = ColorLit(0, 0, 0)
  /\ written.color = ColorLit(0, 0, 0)

\* No object of the scene has the diffuse material.
NoLambertian ==
  \A i \in 1..Len(objects) : objects[i].material.kind # "Lambertian"

\* The calls of trace that are under way were made one by another, each with
\* the budget of its caller less one, the first with the whole budget.
ChainBounded ==
  /\ Len(stack) <= MaxDepth(variant)
  /\ \A i \in 1..Len(stack) :
       stack[i].remainingCalls = MaxDepth(variant) - (i - 1)
  /\ pc = "trace" => cur.remainingCalls = MaxDepth(variant) - Len(stack)

C4_Offsets ==
  /\ film.topLeft.x - eye.x = InitFilm.topLeft.x - InitEye.x
  /\ film.topLeft.y - eye.y = InitFilm.topLeft.y - InitEye.y
  /\ film.z - eye.z = InitFilm.z - InitEye.z
  /\ film.width = InitFilm.width
  /\ film.height = InitFilm.height

\* One step of 0.1 along one axis, forward or backward.
C4_OneStep ==
  { << d, 0, 0 >> : d \in {Lit10(1), -Lit10(1)} } \cup
  { << 0, d, 0 >> : d \in {Lit10(1), -Lit10(1)} } \cup
  { << 0, 0, d >> : d \in {Lit10(1), -Lit10(1)} }

C7_WrittenAgain ==
  /\ ~written.isNull
  /\ << written.x, written.y >> = watch
  /\ ~first.isNull
  /\ presented > 0
  /\ eye = InitEye
  /\ film = InitFilm

\* C7: the diffuse material's sampling is the only source of nondeterminism:
\* for a scene without the diffuse material, the hard-coded scene for one, two
\* renders with the same scene and the same camera write the same color to
\* every pixel.
C7_SameColor ==
  (NoLambertian /\ C7_WrittenAgain) => written.color = first.color

\* C7, amended: where trace reflects as a mirror and draws no random number,
\* in src/index.js, two renders with the same scene and the same camera write
\* the same color to every pixel.
C7_SameColorMirror ==
  (variant = "index" /\ C7_WrittenAgain) => written.color = first.color

\* In src/index.js a pixel whose ray hits a sphere has been written a second
\* time, with the color of the first time.
C7_Witness ==
  /\ variant = "index"
  /\ C7_WrittenAgain
  /\ ~written.from.isNull
  /\ written.color = first.color
  /\ Len(objects) = Len(HallObjects(variant))

\* The objects whose intersect(ray) reports a hit.
Hitters(objs, incoming) ==
  { i \in 1..Len(objs) : ~Intersect(objs[i], incoming).isNull }

\* Among the objects that report a hit, the one with the least t, and of
\* those with exactly that t the earliest in the list.
Closest(objs, incoming) ==
  CHOOSE i \in Hitters(objs, incoming) :
    \A j \in Hitters(objs, incoming) :
      /\ Le(Intersect(objs[i], incoming).t, Intersect(objs[j], incoming).t)
      /\ Intersect(objs[j], incoming).t = Intersect(objs[i], incoming).t => i <= j

\* What trace computes when it shades object i for its ray.
ShadedAs(i) ==
  FrameAt(variant, objects, lights, cur.ray, cur.remainingCalls, objects[i],
          RayAt(cur.ray, Intersect(objects[i], cur.ray).t))

\* C11: for a ray and a budget > 0, trace shades the object whose
\* intersect(ray) returns the minimal t over all objects that report a hit,
\* of several objects with exactly the same minimal t the earliest in the
\* scene list, and trace returns null exactly when no object reports a hit:
\* a call that shades an object returns a color.
C11_NearestHit ==
  [][/\ (pc = "trace" /\ cur.remainingCalls > 0) =>
          IF Hitters(objects, cur.ray) = {}
          THEN pc' = "return" /\ ret' = Null /\ stack' = stack
          ELSE /\ pc' = "scatter"
               /\ stack' = Append(stack, ShadedAs(Closest(objects, cur.ray)))
     /\ (pc = "return" /\ stack # << >>) =>
          /\ ~ret'.isNull
          /\ stack' = SubSeq(stack, 1, Len(stack) - 1)]_vars

\* trace is about to scatter from the second object of the list: the first
\* one is hit farther away, and the third one at exactly the same t.
C11_Witness ==
  /\ pc = "scatter"
  /\ Len(objects) = 3
  /\ stack # << >>
  /\ LET f == stack[Len(stack)]
     IN  /\ Hitters(objects, f.ray) = {1, 2, 3}
         /\ Gt(Intersect(objects[1], f.ray).t, Intersect(objects[2], f.ray).t)
         /\ Intersect(objects[3], f.ray).t = Intersect(objects[2], f.ray).t
         /\ objects[3].material.color # objects[2].material.color
         /\ f.color = objects[2].material.color
         /\ f.intersection = RayAt(f.ray, Intersect(objects[2], f.ray).t)

====
